---- MODULE Spec2Model ----
(***************************************************************************)
(* Model of adc_noise_calculation.py: the SI string parser parse_si_string *)
(* and the two button handlers of the Streamlit script (Calculate SNR and  *)
(* ENOB, Calculate from Measured SNDR).                                    *)
(*                                                                         *)
(* Strings are sequences of one-character strings; the micro sign is the   *)
(* character "micro".  Real numbers are exact: a number is a record        *)
(* [n, d, e] standing for (n/d) * 10^e in canonical form (see Norm), so    *)
(* that the SI multipliers 1e-15 .. 1e9 and kT = 4.14e-21 are represented  *)
(* exactly.  Python floats round; the model does not.                      *)
(***************************************************************************)
EXTENDS Integers, Sequences, FiniteSets, TLC

(* ---------------------------------------------------------------------- *)
(* Bounds of the model.                                                    *)
(* ---------------------------------------------------------------------- *)
\* longest text typed into the parser's input
MaxLen == 5
\* largest resolution entered in the "Resolution (bits)" number input
MaxBits == 2

(* ---------------------------------------------------------------------- *)
(* Exact arithmetic on numbers (n/d) * 10^e.                               *)
(* ---------------------------------------------------------------------- *)
Abs(x) == IF x < 0 THEN -x ELSE x

RECURSIVE Gcd(_, _)
Gcd(a, b) == IF b = 0 THEN a ELSE Gcd(b, a % b)

RECURSIVE Pow(_, _)
Pow(b, k) == IF k <= 0 THEN 1 ELSE b * Pow(b, k - 1)

\* the factors 5 of numerator and denominator go into the exponent:
\* 5 = 10/2 and 1/5 = 2/10
RECURSIVE StripFives(_, _, _)
StripFives(n, d, e) ==
    IF n % 5 = 0 THEN StripFives(n \div 5, d * 2, e + 1)
    ELSE IF d % 5 = 0 THEN StripFives(n * 2, d \div 5, e - 1)
    ELSE LET g == Gcd(Abs(n), d)
         IN  [n |-> n \div g, d |-> d \div g, e |-> e]

\* canonical form of (n/d) * 10^e, d # 0: d > 0, gcd(n, d) = 1, neither n
\* nor d a multiple of 5; zero is [0, 1, 0].  Equal numbers are equal records.
Norm(n, d, e) ==
    IF n = 0 THEN [n |-> 0, d |-> 1, e |-> 0]
    ELSE LET g == Gcd(Abs(n), Abs(d))
             s == IF d < 0 THEN -1 ELSE 1
         IN  StripFives(s * (n \div g), Abs(d) \div g, e)

Int2Num(k) == Norm(k, 1, 0)
Zero == Int2Num(0)

Mul(a, b) ==
    LET g1 == Gcd(Abs(a.n), b.d)
        g2 == Gcd(Abs(b.n), a.d)
    IN  Norm((a.n \div g1) * (b.n \div g2), (a.d \div g2) * (b.d \div g1), a.e + b.e)
Neg(a) == [a EXCEPT !.n = -a.n]
Add(a, b) ==
    IF a.n = 0 THEN b
    ELSE IF b.n = 0 THEN a
    ELSE LET e == IF a.e < b.e THEN a.e ELSE b.e
             g == Gcd(a.d, b.d)
             x == a.n * Pow(10, a.e - e)
             y == b.n * Pow(10, b.e - e)
         IN  Norm(x * (b.d \div g) + y * (a.d \div g), (a.d \div g) * b.d, e)
Sub(a, b) == Add(a, Neg(b))
\* 1 / b and a / b for b # 0 (the callers raise ZeroDivisionError themselves)
Inv(b) == IF b.n < 0 THEN [n |-> -b.d, d |-> -b.n, e |-> -b.e]
          ELSE [n |-> b.d, d |-> b.n, e |-> -b.e]
Div(a, b) == Mul(a, Inv(b))
Sq(a) == Mul(a, a)
Sign(a) == IF a.n > 0 THEN 1 ELSE IF a.n < 0 THEN -1 ELSE 0
IsZero(a) == a.n = 0
\* q < 1 for q > 0, without forming n * 10^e
BelowOne(q) ==
    IF q.e >= 10 THEN FALSE
    ELSE IF q.e <= -10 THEN TRUE
    ELSE IF q.e >= 0 THEN q.n <= (q.d - 1) \div Pow(10, q.e)
    ELSE q.n \div Pow(10, -q.e) < q.d
\* a < b: on the signs first, on the quotient otherwise
Less(a, b) ==
    IF Sign(a) # Sign(b) THEN Sign(a) < Sign(b)
    ELSE IF Sign(a) = 0 THEN FALSE
    ELSE IF Sign(a) > 0 THEN BelowOne(Div(a, b))
    ELSE BelowOne(Div(b, a))

(* ---------------------------------------------------------------------- *)
(* Strings and Python's float().                                           *)
(* ---------------------------------------------------------------------- *)
Digits == {"0", "1", "2", "3", "4", "5", "6", "7", "8", "9"}
Whitespace == {" "}

DigitVal(c) ==
    CASE c = "0" -> 0 [] c = "1" -> 1 [] c = "2" -> 2 [] c = "3" -> 3
      [] c = "4" -> 4 [] c = "5" -> 5 [] c = "6" -> 6 [] c = "7" -> 7
      [] c = "8" -> 8 [] c = "9" -> 9

RECURSIVE DigitsVal(_)
DigitsVal(ds) ==
    IF ds = <<>> THEN 0
    ELSE DigitsVal(SubSeq(ds, 1, Len(ds) - 1)) * 10 + DigitVal(ds[Len(ds)])

AllDigits(ds) == \A i \in 1..Len(ds) : ds[i] \in Digits
Positions(s, cs) == {i \in 1..Len(s) : s[i] \in cs}
MinOf(S) == CHOOSE x \in S : \A y \in S : x <= y
MaxOf(S) == CHOOSE x \in S : \A y \in S : y <= x

\* str.strip(): leading and trailing whitespace removed
strip(s) ==
    LET keep == {i \in 1..Len(s) : s[i] \notin Whitespace}
    IN  IF keep = {} THEN <<>> ELSE SubSeq(s, MinOf(keep), MaxOf(keep))

\* str.replace("µ", "u")
replace_micro(s) == [i \in 1..Len(s) |-> IF s[i] = "micro" THEN "u" ELSE s[i]]

\* str.endswith(suffix)
endswith(s, suffix) ==
    /\ Len(suffix) <= Len(s)
    /\ SubSeq(s, Len(s) - Len(suffix) + 1, Len(s)) = suffix

\* s[:-k]; Python's s[:-0] is s[:0], the empty string
slice_off(s, k) == IF k = 0 THEN <<>> ELSE SubSeq(s, 1, Len(s) - k)

\* float(s): surrounding whitespace, a sign, digits with an optional point, an
\* optional exponent.  (inf, nan and digit-group underscores, which float()
\* also reads, are left out: the alphabets of the model cannot spell them.)
\* A failure is Python's ValueError.
float_fields(sgn, ip, fp, hasExp, esgn, ebody) ==
    IF /\ AllDigits(ip) /\ AllDigits(fp) /\ Len(ip) + Len(fp) > 0
       /\ (hasExp => (ebody # <<>> /\ AllDigits(ebody)))
    THEN [ok |-> TRUE,
          val |-> Norm(sgn * (DigitsVal(ip) * Pow(10, Len(fp)) + DigitsVal(fp)),
                       1, esgn * DigitsVal(ebody) - Len(fp))]
    ELSE [ok |-> FALSE, val |-> Zero]

\* the mantissa is split at its first point
float_mantissa(sgn, mant, hasExp, esgn, ebody) ==
    LET dots == Positions(mant, {"."})
    IN  IF dots = {} THEN float_fields(sgn, mant, <<>>, hasExp, esgn, ebody)
        ELSE float_fields(sgn, SubSeq(mant, 1, MinOf(dots) - 1),
                          SubSeq(mant, MinOf(dots) + 1, Len(mant)),
                          hasExp, esgn, ebody)

\* the exponent's sign is taken off
float_exponent(sgn, mant, expo) ==
    IF expo # <<>> /\ expo[1] = "-" THEN float_mantissa(sgn, mant, TRUE, -1, Tail(expo))
    ELSE IF expo # <<>> /\ expo[1] = "+" THEN float_mantissa(sgn, mant, TRUE, 1, Tail(expo))
    ELSE float_mantissa(sgn, mant, TRUE, 1, expo)

\* the text is split at its first e or E
float_unsigned(sgn, body) ==
    LET epos == Positions(body, {"e", "E"})
    IN  IF epos = {} THEN float_mantissa(sgn, body, FALSE, 1, <<>>)
        ELSE float_exponent(sgn, SubSeq(body, 1, MinOf(epos) - 1),
                            SubSeq(body, MinOf(epos) + 1, Len(body)))

float_stripped(s) ==
    IF s # <<>> /\ s[1] = "-" THEN float_unsigned(-1, Tail(s))
    ELSE IF s # <<>> /\ s[1] = "+" THEN float_unsigned(1, Tail(s))
    ELSE float_unsigned(1, s)

float(s) == float_stripped(strip(s))

(* ---------------------------------------------------------------------- *)
(* parse_si_string                                                         *)
(* ---------------------------------------------------------------------- *)
\* si_prefixes with "meg" scaled as the milli suffix "m" is
si_prefixes_meg_as_milli ==
    << [suffix |-> <<"m", "e", "g">>, mult |-> Norm(1, 1, -3)],
       [suffix |-> <<"G">>,           mult |-> Norm(1, 1, 9)],
       [suffix |-> <<"M">>,           mult |-> Norm(1, 1, 6)],
       [suffix |-> <<"k">>,           mult |-> Norm(1, 1, 3)],
       [suffix |-> <<>>,              mult |-> Norm(1, 1, 0)],
       [suffix |-> <<"m">>,           mult |-> Norm(1, 1, -3)],
       [suffix |-> <<"u">>,           mult |-> Norm(1, 1, -6)],
       [suffix |-> <<"n">>,           mult |-> Norm(1, 1, -9)],
       [suffix |-> <<"p">>,           mult |-> Norm(1, 1, -12)],
       [suffix |-> <<"f">>,           mult |-> Norm(1, 1, -15)] >>

\* the dict si_prefixes, in insertion order
si_prefixes ==
    << [suffix |-> <<"m", "e", "g">>, mult |-> Norm(1, 1, 6)],
       [suffix |-> <<"G">>,           mult |-> Norm(1, 1, 9)],
       [suffix |-> <<"M">>,           mult |-> Norm(1, 1, 6)],
       [suffix |-> <<"k">>,           mult |-> Norm(1, 1, 3)],
       [suffix |-> <<>>,              mult |-> Norm(1, 1, 0)],
       [suffix |-> <<"m">>,           mult |-> Norm(1, 1, -3)],
       [suffix |-> <<"u">>,           mult |-> Norm(1, 1, -6)],
       [suffix |-> <<"n">>,           mult |-> Norm(1, 1, -9)],
       [suffix |-> <<"p">>,           mult |-> Norm(1, 1, -12)],
       [suffix |-> <<"f">>,           mult |-> Norm(1, 1, -15)] >>

\* sorted(si_prefixes, key=len, reverse=True): longest first, entries of one
\* length in their dict order (Python's sort is stable, also when reversed)
RECURSIVE sorted_from(_, _)
sorted_from(ps, len) ==
    IF len < 0 THEN <<>>
    ELSE SelectSeq(ps, LAMBDA p : Len(p.suffix) = len) \o sorted_from(ps, len - 1)

sorted_by_len_reverse(ps) ==
    sorted_from(ps, MaxOf({Len(ps[i].suffix) : i \in 1..Len(ps)}))

\* the for loop of the except branch: the first suffix that ends s and leaves
\* a float wins; a suffix whose remainder is no float is skipped (continue);
\* when the loop runs out, ValueError carrying s
RECURSIVE try_suffixes(_, _)
try_suffix(s, ps, p, rest) ==
    IF endswith(s, p.suffix) /\ rest.ok
    THEN [kind |-> "value", exc |-> "", carried |-> <<>>,
          val |-> Mul(rest.val, p.mult)]
    ELSE try_suffixes(s, Tail(ps))

try_suffixes(s, ps) ==
    IF ps = <<>>
    THEN [kind |-> "error", exc |-> "ValueError", carried |-> s, val |-> Zero]
    ELSE try_suffix(s, ps, Head(ps), float(slice_off(s, Len(Head(ps).suffix))))

\* s is the stripped text with u for the micro sign, direct is float(s)
parse_normalized(s, direct) ==
    IF direct.ok
    THEN [kind |-> "value", exc |-> "", carried |-> <<>>, val |-> direct.val]
    ELSE try_suffixes(s, sorted_by_len_reverse(si_prefixes))

\* str.lower() on the letters of the alphabets
lower(s) ==
    [i \in 1..Len(s) |->
        CASE s[i] = "M" -> "m" [] s[i] = "G" -> "g" [] s[i] = "E" -> "e"
          [] OTHER -> s[i]]

\* parse_si_string with the text lower-cased before the suffixes are matched
parse_si_string_lowercased(s) ==
    parse_normalized(lower(replace_micro(strip(s))),
                     float(lower(replace_micro(strip(s)))))

parse_si_string(s) ==
    parse_normalized(replace_micro(strip(s)), float(replace_micro(strip(s))))

NoResult == [kind |-> "none", exc |-> "", carried |-> <<>>, val |-> Zero]

(* ---------------------------------------------------------------------- *)
(* The script's constants and irrational quantities.                       *)
(* ---------------------------------------------------------------------- *)
\* kT = 1.38e-23 * 300
kT == Mul(Norm(138, 1, -25), Int2Num(300))
\* math.pi, to three digits
pi == Norm(314, 1, -2)

\* x / math.sqrt(k) is kept as the pair; its square is x^2 / k
OverSqrt(x, k) == [num |-> x, root |-> k]
SqOverSqrt(v) == Div(Sq(v.num), Int2Num(v.root))
\* 10 * math.log10(r), r > 0, is kept as its argument r: log10 is strictly
\* increasing, so two values compare as their arguments do
TenLog10(r) == [ratio |-> r]
\* (x - 1.76) / 6.02
enob_of(x) == Div(Sub(x, Norm(176, 1, -2)), Norm(602, 1, -2))

(* ---------------------------------------------------------------------- *)
(* Elements the script puts on the page.                                   *)
(* ---------------------------------------------------------------------- *)
NoBudget ==
    [computed |-> FALSE, p_q |-> Zero, p_thermal |-> Zero, p_kTC |-> Zero,
     p_jitter |-> Zero, p_total_noise |-> Zero, p_signal |-> Zero]
NoPerf == [snr |-> TenLog10(Zero), enob |-> [of_snr |-> TenLog10(Zero)]]
NoEstimate ==
    [v_signal_rms |-> OverSqrt(Zero, 8),
     v_noise_rms |-> [rms |-> OverSqrt(Zero, 8), db_down |-> Zero],
     enob_sndr |-> Zero]

Element(kind, exc, text, budget, perf, est, labels) ==
    [kind |-> kind, exc |-> exc, text |-> text, budget |-> budget,
     perf |-> perf, est |-> est, labels |-> labels]

\* st.success("Calculation Completed!")
Success == Element("success", "", <<>>, NoBudget, NoPerf, NoEstimate, <<>>)
\* the Results markdown: noise breakdown, total, SNR, ENOB
Results(budget, perf) ==
    Element("results", "", <<>>, budget, perf, NoEstimate, <<>>)
\* the SNDR-based Noise Estimation markdown
SndrMarkdown(est) == Element("sndr", "", <<>>, NoBudget, NoPerf, est, <<>>)
\* st.warning("Invalid SNDR input. Please enter a valid number.")
Warning == Element("warning", "", <<>>, NoBudget, NoPerf, NoEstimate, <<>>)
\* st.pyplot(fig): the pie of the positive powers
Pyplot(labels) == Element("pyplot", "", <<>>, NoBudget, NoPerf, NoEstimate, labels)
\* st.error(f"Error: {e}"); text is the string a parse failure carries
Error(exc, text) == Element("error", exc, text, NoBudget, NoPerf, NoEstimate, <<>>)

Kinds(out) == {out[i].kind : i \in 1..Len(out)}

(* ---------------------------------------------------------------------- *)
(* The Calculate SNR and ENOB handler.                                     *)
(* ---------------------------------------------------------------------- *)
\* the SNDR estimate both handlers compute
sndr_estimate(fs, sndr) ==
    LET v_signal_rms == OverSqrt(fs, 8)
    IN  [v_signal_rms |-> v_signal_rms,
         v_noise_rms |-> [rms |-> v_signal_rms, db_down |-> sndr],
         enob_sndr |-> enob_of(sndr)]

\* the optional SNDR block inside Calculate: skipped on an empty text, a
\* warning when float() raises
calc_sndr_parsed(fs, sndr) ==
    IF sndr.ok THEN << SndrMarkdown(sndr_estimate(fs, sndr.val)) >>
    ELSE << Warning >>

calc_sndr_block(w, fs) ==
    IF strip(w.sndr_str) = <<>> THEN <<>>
    ELSE calc_sndr_parsed(fs, float(w.sndr_str))

\* labels of the powers > 0, in the order of the list
pie_labels(b) ==
    (IF Sign(b.p_q) > 0 THEN <<"Quantization">> ELSE <<>>)
    \o (IF Sign(b.p_thermal) > 0 THEN <<"Comparator">> ELSE <<>>)
    \o (IF Sign(b.p_kTC) > 0 THEN <<"kT/C">> ELSE <<>>)
    \o (IF Sign(b.p_jitter) > 0 THEN <<"Jitter">> ELSE <<>>)

\* lines 78-82: the total and the signal power
budget_record(fs, p_q, p_thermal, p_kTC, p_jitter) ==
    [computed |-> TRUE, p_q |-> p_q, p_thermal |-> p_thermal,
     p_kTC |-> p_kTC, p_jitter |-> p_jitter,
     p_total_noise |-> Add(Add(Add(p_q, p_thermal), p_kTC), p_jitter),
     p_signal |-> SqOverSqrt(OverSqrt(fs, 8))]

\* noise_budget with the jitter term computed whatever use_jitter says
noise_budget_jitter_always(fs, bits, thermal_rms, c_sample, f_in, t_jitter, use_c, use_jitter) ==
    budget_record(
        fs,
        SqOverSqrt(OverSqrt(Div(fs, Int2Num(Pow(2, bits))), 12)),
        Sq(thermal_rms),
        IF use_c /\ ~IsZero(c_sample)
        THEN Div(Mul(Int2Num(2), kT), c_sample) ELSE Zero,
        Div(Mul(Sq(Mul(Mul(Mul(Int2Num(2), pi), f_in), Div(fs, Int2Num(2)))),
                Sq(t_jitter)), Int2Num(2)))

\* the noise powers, lines 62-82, from parsed values; c_sample is used only
\* under use_c
noise_budget(fs, bits, thermal_rms, c_sample, f_in, t_jitter, use_c, use_jitter) ==
    budget_record(
        fs,
        \* delta = fs / 2**bits; v_q_rms = delta / sqrt(12); p_q = v_q_rms**2
        SqOverSqrt(OverSqrt(Div(fs, Int2Num(Pow(2, bits))), 12)),
        \* p_thermal = thermal_rms**2
        Sq(thermal_rms),
        \* p_kTC = 2*kT/c_sample if use_c and c_sample else 0
        IF use_c /\ ~IsZero(c_sample)
        THEN Div(Mul(Int2Num(2), kT), c_sample) ELSE Zero,
        \* v_peak = fs/2; p_jitter = (2*pi*f_in*v_peak)**2 * t_jitter**2 / 2
        IF use_jitter
        THEN Div(Mul(Sq(Mul(Mul(Mul(Int2Num(2), pi), f_in), Div(fs, Int2Num(2)))),
                     Sq(t_jitter)), Int2Num(2))
        ELSE Zero)

\* lines 89-145: the SNR is known
calc_report(w, fs, b, perf) ==
    IF Sign(b.p_kTC) < 0
    THEN << Success, Error("ValueError", <<>>) >>          \* math.sqrt(p_kTC)
    ELSE << Success, Results(b, perf) >>
         \o calc_sndr_block(w, fs)
         \o << Pyplot(pie_labels(b)) >>

calc_snr(w, fs, b, ratio) ==
    IF Sign(ratio) <= 0
    THEN << Error("ValueError", <<>>) >>                   \* math.log10
    ELSE calc_report(w, fs, b,
                     [snr |-> TenLog10(ratio), enob |-> [of_snr |-> TenLog10(ratio)]])

\* calc_finish with the division by a zero total giving an infinite SNR
\* instead of raising
calc_finish_unchecked(w, fs, b) ==
    IF IsZero(b.p_total_noise)
    THEN calc_report(w, fs, b, NoPerf)
    ELSE calc_snr(w, fs, b, Div(b.p_signal, b.p_total_noise))

\* lines 84-145 once the powers are known
calc_finish(w, fs, b) ==
    IF IsZero(b.p_total_noise)
    THEN << Error("ZeroDivisionError", <<>>) >>            \* p_signal / 0
    ELSE calc_snr(w, fs, b, Div(b.p_signal, b.p_total_noise))

calc_budget(w, fs, b) == [out |-> calc_finish(w, fs, b), budget |-> b]

\* the first of the parses, in the order of lines 55-59, that raises
first_failure(rs) ==
    LET bad == {i \in 1..Len(rs) : rs[i].kind = "error"}
    IN  IF bad = {} THEN NoResult ELSE rs[MinOf(bad)]

\* lines 60-148, the five parses done: failed is the first that raised
calc_parsed(w, fs, thermal_rms, c_sample, f_in, t_jitter, failed) ==
    IF failed.kind = "error"
    THEN [out |-> << Error(failed.exc, failed.carried) >>, budget |-> NoBudget]
    ELSE calc_budget(w, fs.val,
                     noise_budget(fs.val, w.bits, thermal_rms.val, c_sample.val,
                                  f_in.val, t_jitter.val, w.use_c, w.use_jitter))

calc_parses(w, fs, thermal_rms, c_sample, f_in, t_jitter) ==
    calc_parsed(w, fs, thermal_rms, c_sample, f_in, t_jitter,
                first_failure(<<fs, thermal_rms, c_sample, f_in, t_jitter>>))

\* Calculate with the capacitance text parsed whatever use_c says
Calculate_parses_cap(w) ==
    calc_parses(w,
                parse_si_string(w.fs_str),
                parse_si_string(w.thermal_rms_str),
                parse_si_string(w.c_sample_str),
                parse_si_string(w.freq_str),
                parse_si_string(w.jitter_str))

\* the whole handler: [out: what is put on the page, budget: the powers, if
\* the handler got as far as computing them].  c_sample is None, and its
\* text is not parsed, unless use_c
Calculate(w) ==
    calc_parses(w,
                parse_si_string(w.fs_str),
                parse_si_string(w.thermal_rms_str),
                IF w.use_c THEN parse_si_string(w.c_sample_str)
                ELSE [NoResult EXCEPT !.kind = "value"],
                parse_si_string(w.freq_str),
                parse_si_string(w.jitter_str))

(* ---------------------------------------------------------------------- *)
(* The Calculate from Measured SNDR handler.                               *)
(* ---------------------------------------------------------------------- *)
estimate_parsed(sndr, fs) ==
    IF sndr.ok /\ fs.kind = "value"
    THEN << SndrMarkdown(sndr_estimate(fs.val, sndr.val)) >>
    ELSE << Warning >>                                       \* bare except

\* Estimate folded into the budget: no estimate unless Calculate succeeds
estimate_if(budgetOut, sndr, fs) ==
    IF budgetOut[1].kind = "error" THEN << Warning >>
    ELSE estimate_parsed(sndr, fs)

Estimate_after_budget(w) ==
    estimate_if(Calculate(w).out, float(w.sndr_str), parse_si_string(w.fs_str))

Estimate(w) == estimate_parsed(float(w.sndr_str), parse_si_string(w.fs_str))

(* ---------------------------------------------------------------------- *)
(* State.                                                                  *)
(* ---------------------------------------------------------------------- *)
\* characters that can be typed into the parser's input
Alphabet == {"1", "5", ".", "-", "m", "e", "g", "M", " ", "micro"}

\* texts the user may have typed into the widgets (lines 39-50)
FsTexts == {<<"1", "m">>, <<"0">>, <<"-", "1", "m">>, <<" ", "x">>}
ThermalTexts == {<<"0">>, <<"1", "0", "micro">>}
CapTexts == {<<>>, <<"0">>, <<"1", "0", "0", "f">>, <<"-", "1", "0", "0", "f">>}
FreqTexts == {<<"0">>, <<"1", "G">>}
JitterTexts == {<<"0">>, <<"1", "n">>, <<"2", "n">>, <<"-", "1", "n">>}
SndrTexts == {<<>>, <<"2", "0">>, <<"x">>}

Widgets ==
    [fs_str : FsTexts, bits : 0..MaxBits, thermal_rms_str : ThermalTexts,
     c_sample_str : CapTexts, freq_str : FreqTexts, jitter_str : JitterTexts,
     use_c : BOOLEAN, use_jitter : BOOLEAN, sndr_str : SndrTexts]

VARIABLES
    widgets,   \* the values of the input widgets
    clicked,   \* the button that started the last run of the script
    out,       \* the elements the last run put on the page, in order
    budget,    \* the noise powers the last run computed
    pin,       \* a text handed to parse_si_string
    pres       \* what parse_si_string made of it

vars == <<widgets, clicked, out, budget, pin, pres>>

\* the widgets of the first state of the parser's specification
SomeWidgets ==
    [fs_str |-> <<"1", "m">>, bits |-> MaxBits, thermal_rms_str |-> <<"0">>,
     c_sample_str |-> <<>>, freq_str |-> <<"0">>, jitter_str |-> <<"0">>,
     use_c |-> FALSE, use_jitter |-> FALSE, sndr_str |-> <<>>]

(* ---- the page: the script runs once per click ---- *)
Init ==
    /\ widgets \in Widgets
    /\ clicked = "none"
    /\ out = <<>>
    /\ budget = NoBudget
    /\ pin = <<>>
    /\ pres = NoResult

\* "Calculate SNR and ENOB" is clicked: lines 53-148 run
ClickCalculate ==
    /\ clicked' = "calculate"
    /\ \E r \in {Calculate(widgets)} : out' = r.out /\ budget' = r.budget
    /\ UNCHANGED <<widgets, pin, pres>>

\* "Calculate from Measured SNDR" is clicked: lines 151-166 run
ClickEstimate ==
    /\ clicked' = "estimate"
    /\ out' = Estimate(widgets)
    /\ budget' = NoBudget
    /\ UNCHANGED <<widgets, pin, pres>>

Next == ClickCalculate \/ ClickEstimate
Spec == Init /\ [][Next]_vars

(* ---- the parser alone ---- *)
InitParse ==
    /\ pin = <<>>
    /\ pres = NoResult
    /\ widgets = SomeWidgets
    /\ clicked = "none"
    /\ out = <<>>
    /\ budget = NoBudget

\* a character is typed at the end of the text
TypeChar ==
    \E c \in Alphabet :
        /\ Len(pin) < MaxLen
        /\ pin' = Append(pin, c)
        /\ pres' = NoResult
        /\ UNCHANGED <<widgets, clicked, out, budget>>

\* the text is cleared
ClearText ==
    /\ pin # <<>>
    /\ pin' = <<>>
    /\ pres' = NoResult
    /\ UNCHANGED <<widgets, clicked, out, budget>>

\* the text is parsed
Parse ==
    /\ pres = NoResult
    /\ pres' = parse_si_string(pin)
    /\ UNCHANGED <<pin, widgets, clicked, out, budget>>

NextParse == TypeChar \/ ClearText \/ Parse
SpecParse == InitParse /\ [][NextParse]_vars

(* ---------------------------------------------------------------------- *)
(* Properties.                                                             *)
(* ---------------------------------------------------------------------- *)
ParsedOk(text) == parse_si_string(text).kind = "value"
ValOf(text) == parse_si_string(text).val
Meg == <<"m", "e", "g">>
LastChar(s) == s[Len(s)]
HasResults(o) == Len(o) >= 2 /\ o[2].kind = "results"
SnrOf(o) == o[2].perf.snr
\* 10*log10(a) < 10*log10(b)
DbLess(a, b) == Less(a.ratio, b.ratio)
ResultKinds == {"success", "results"}
ErrorKinds == {"error", "warning"}

\* the domain constraints of the ADC parameters that computeBudget is to
\* reject: fs <= 0, bits < 1, capacitance absent or <= 0 under include_kTC
InvalidParameter(w) ==
    \/ (ParsedOk(w.fs_str) /\ Sign(ValOf(w.fs_str)) <= 0)
    \/ w.bits < 1
    \/ (w.use_c /\ (~ParsedOk(w.c_sample_str) \/ Sign(ValOf(w.c_sample_str)) <= 0))

\* every parameter inside its domain
Admissible(w) ==
    /\ ParsedOk(w.fs_str) /\ Sign(ValOf(w.fs_str)) > 0
    /\ w.bits >= 1
    /\ ParsedOk(w.thermal_rms_str) /\ Sign(ValOf(w.thermal_rms_str)) >= 0
    /\ w.use_c => (ParsedOk(w.c_sample_str) /\ Sign(ValOf(w.c_sample_str)) > 0)
    /\ ParsedOk(w.freq_str) /\ Sign(ValOf(w.freq_str)) >= 0
    /\ ParsedOk(w.jitter_str) /\ Sign(ValOf(w.jitter_str)) >= 0

\* C1: a Calculate run on an invalid parameter (full scale <= 0, resolution
\* < 1, or kT/C included with the capacitance absent or <= 0) ends in an
\* error and puts no success message and no result on the page.
C1_InvalidParameterRejected ==
    (clicked = "calculate" /\ InvalidParameter(widgets))
        => ("error" \in Kinds(out) /\ Kinds(out) \cap ResultKinds = {})

\* C2: in every budget calculation each of the four noise powers is >= 0, a
\* term switched off by its flag is exactly 0, and the total is their sum.
C2_PowersNonNegative ==
    budget.computed =>
        /\ Sign(budget.p_q) >= 0
        /\ Sign(budget.p_thermal) >= 0
        /\ Sign(budget.p_kTC) >= 0
        /\ Sign(budget.p_jitter) >= 0
        /\ ~widgets.use_c => budget.p_kTC = Zero
        /\ ~widgets.use_jitter => budget.p_jitter = Zero
        /\ budget.p_total_noise =
               Add(Add(Add(budget.p_q, budget.p_thermal), budget.p_kTC),
                   budget.p_jitter)

\* C3: when the total noise power is exactly 0, the Calculate run puts the
\* division-by-zero error on the page and nothing else: no success message,
\* no SNR, no ENOB.
C3_ZeroTotalIsError ==
    (clicked = "calculate" /\ budget.computed /\ IsZero(budget.p_total_noise))
        => out = << Error("ZeroDivisionError", <<>>) >>

C3_Witness ==
    /\ clicked = "calculate"
    /\ budget.computed
    /\ IsZero(budget.p_total_noise)
    /\ Kinds(out) = {"error"}

\* C4: with kT/C switched off the kT/C power is 0 and the capacitance text is
\* without effect: whatever it is (empty and unparseable included), the run
\* puts the same elements on the page and computes the same powers.
C4_CapacitanceIgnored ==
    (clicked = "calculate" /\ ~widgets.use_c) =>
        /\ budget.computed => budget.p_kTC = Zero
        /\ \A c \in CapTexts :
               Calculate([widgets EXCEPT !.c_sample_str = c])
                   = [out |-> out, budget |-> budget]

C4_Witness ==
    /\ clicked = "calculate"
    /\ ~widgets.use_c
    /\ widgets.c_sample_str = <<>>
    /\ HasResults(out)
    /\ out[2].budget.p_kTC = Zero

\* C5: a text that ends in "meg" and whose front is a decimal number x
\* parses to x * 1e6 (and so never to x * 1e-3).
C5_MegIsMega ==
    (pres.kind # "none" /\ endswith(pin, Meg) /\ float(slice_off(pin, 3)).ok)
        => /\ pres.kind = "value"
           /\ pres.val = Mul(float(slice_off(pin, 3)).val, Norm(1, 1, 6))

C5_Witness ==
    /\ pres.kind = "value"
    /\ endswith(pin, Meg)
    /\ float(slice_off(pin, 3)).ok
    /\ pres.val = Norm(1, 1, 6)

\* C6: when the parse of the full-scale text fails in a Calculate or an
\* Estimate run, the page shows an error that carries that text exactly as
\* it was typed.
C6_ParseErrorCarriesInput ==
    (/\ ~ParsedOk(widgets.fs_str)
     /\ \/ clicked = "calculate"
        \/ (clicked = "estimate" /\ float(widgets.sndr_str).ok))
        => \E i \in 1..Len(out) :
               out[i].kind = "error" /\ out[i].text = widgets.fs_str

\* C7: the suffix is matched with its case: a decimal number x followed by
\* "m" parses to x * 1e-3, followed by "M" to x * 1e6.
C7_CaseSensitive ==
    (pres.kind # "none" /\ pin # <<>> /\ float(slice_off(pin, 1)).ok) =>
        /\ LastChar(pin) = "m" =>
               (/\ pres.kind = "value"
                /\ pres.val = Mul(float(slice_off(pin, 1)).val, Norm(1, 1, -3)))
        /\ LastChar(pin) = "M" =>
               (/\ pres.kind = "value"
                /\ pres.val = Mul(float(slice_off(pin, 1)).val, Norm(1, 1, 6)))

C7_Witness ==
    /\ pin = <<"1", "M">>
    /\ pres.kind = "value"
    /\ pres.val = Norm(1, 1, 6)
    /\ parse_si_string(<<"1", "m">>).val = Norm(1, 1, -3)

\* the run just made (powers b1, page o1) against the run r2 on a larger
\* jitter: strictly more jitter power and strictly less SNR
StrictStep(b1, o1, r2) ==
    /\ HasResults(o1) /\ HasResults(r2.out)
    /\ Less(b1.p_jitter, r2.budget.p_jitter)
    /\ DbLess(SnrOf(r2.out), SnrOf(o1))

\* the same, strict exactly when the jitter term is on and the frequency > 0
MonotoneStep(w, b1, o1, r2) ==
    /\ HasResults(o1) /\ HasResults(r2.out)
    /\ IF w.use_jitter /\ Sign(ValOf(w.freq_str)) > 0
       THEN /\ Less(b1.p_jitter, r2.budget.p_jitter)
            /\ DbLess(SnrOf(r2.out), SnrOf(o1))
       ELSE /\ b1.p_jitter = r2.budget.p_jitter
            /\ SnrOf(r2.out) = SnrOf(o1)

LargerJitter(w, j2) ==
    ParsedOk(j2) /\ Less(ValOf(w.jitter_str), ValOf(j2))

\* C8 as stated: for admissible parameters, a larger clock jitter gives
\* strictly more jitter power and strictly less SNR, also at frequency 0 and
\* with the jitter term switched off.
C8_StrictlyMonotone ==
    (clicked = "calculate" /\ Admissible(widgets)) =>
        \A j2 \in JitterTexts :
            LargerJitter(widgets, j2) =>
                StrictStep(budget, out,
                           Calculate([widgets EXCEPT !.jitter_str = j2]))

\* C8 as amended: for admissible parameters, a larger clock jitter gives no
\* less jitter power and no more SNR; strictly more and strictly less when
\* the jitter term is on and the input frequency is > 0, and exactly the same
\* jitter power and SNR when the term is off or the frequency is 0.
C8_Monotone ==
    (clicked = "calculate" /\ Admissible(widgets)) =>
        \A j2 \in JitterTexts :
            LargerJitter(widgets, j2) =>
                MonotoneStep(widgets, budget, out,
                             Calculate([widgets EXCEPT !.jitter_str = j2]))

C8_Witness ==
    /\ clicked = "calculate"
    /\ Admissible(widgets)
    /\ widgets.use_jitter
    /\ Sign(ValOf(widgets.freq_str)) > 0
    /\ widgets.jitter_str = <<"1", "n">>
    /\ HasResults(out)
    /\ Less(budget.p_jitter,
            Calculate([widgets EXCEPT !.jitter_str = <<"2", "n">>]).budget.p_jitter)

\* the widgets w with one other field than fs_str and sndr_str changed
OtherFieldChanged(w) ==
    {[w EXCEPT !.bits = v] : v \in 0..MaxBits}
    \cup {[w EXCEPT !.thermal_rms_str = v] : v \in ThermalTexts}
    \cup {[w EXCEPT !.c_sample_str = v] : v \in CapTexts}
    \cup {[w EXCEPT !.freq_str = v] : v \in FreqTexts}
    \cup {[w EXCEPT !.jitter_str = v] : v \in JitterTexts}
    \cup {[w EXCEPT !.use_c = v] : v \in BOOLEAN}
    \cup {[w EXCEPT !.use_jitter = v] : v \in BOOLEAN}

\* C9: what an Estimate run puts on the page depends on the full-scale text
\* and the SNDR text alone: changing any other widget changes nothing, and
\* the run computes no noise power.
C9_EstimateIndependent ==
    clicked = "estimate" =>
        /\ budget = NoBudget
        /\ \A w2 \in OtherFieldChanged(widgets) : Estimate(w2) = out

C9_Witness ==
    /\ clicked = "estimate"
    /\ Len(out) = 1
    /\ out[1].kind = "sndr"
    /\ out[1].est.enob_sndr = enob_of(Int2Num(20))
    /\ widgets.use_c /\ widgets.c_sample_str = <<>>

\* C10: a Calculate run that reports an error or a warning puts no success
\* message and no result on the page.
C10_ErrorsAreTerminal ==
    (clicked = "calculate" /\ Kinds(out) \cap ErrorKinds # {})
        => Kinds(out) \cap ResultKinds = {}
====
